---- MODULE Spec2Model ----
(***************************************************************************)
(* Book Recommendation API (src/main.py).                                  *)
(*                                                                         *)
(* At import time the module downloads a pickled triple                    *)
(* (tfidf, tfidf_matrix_books, df_books_meta) and keeps it in three        *)
(* module-level variables.  The POST /api/v1/recommendations endpoint      *)
(* validates the payload (pydantic), joins domain and modules into one     *)
(* text, vectorizes it, takes the cosine similarity against every corpus   *)
(* row and returns the books behind the `limit` last entries of argsort.   *)
(*                                                                         *)
(* Floats are modelled as fixed-point numbers with one guard digit more    *)
(* than the four decimals the response is rounded to.  Texts are           *)
(* sequences of whitespace-separated words.                                *)
(***************************************************************************)
EXTENDS Integers, Sequences, FiniteSets, TLC

VARIABLES
    phase,                \* "import" | "serving" | "aborted"
    downloaded,           \* the HTTP response requests.get returned
    tfidf,                \* module-level: the fitted vectorizer
    tfidf_matrix_books,   \* module-level: corpus matrix, one row per book
    df_books_meta,        \* module-level: book metadata, one row per book
    pc,                   \* per worker thread: position in the request
    request,              \* per worker thread: the JSON body received
    frame,                \* per worker thread: bound local variables
    response              \* per worker thread: HTTP response produced

vars == <<phase, downloaded, tfidf, tfidf_matrix_books, df_books_meta,
          pc, request, frame, response>>

vsm == <<tfidf, tfidf_matrix_books, df_books_meta>>

(***************************************************************************)
(* Bounds and program constants                                            *)
(***************************************************************************)
MaxModules == 2           \* longest modules list a request carries
Workers == {"w1", "w2"}   \* threads of the server's pool serving requests

LIMIT_GT == 0             \* Field(..., gt=0, ...)
LIMIT_LE == 20            \* Field(..., le=20)
ROUND_NDIGITS == 4        \* round(float(...), 4)
HTTP_OK == 200            \* requests.get status accepted by the loader
HTTP_BAD_REQUEST == 400   \* HTTPException(status_code=400, ...)
HTTP_UNPROCESSABLE == 422 \* FastAPI's answer to a pydantic validation error

ScoreScale == 10 ^ ROUND_NDIGITS   \* unit of a rounded score: 1/ScoreScale
FP == 10 * ScoreScale              \* unit of an internal float: one guard digit

(***************************************************************************)
(* Fixed-point arithmetic standing for the float arithmetic of numpy       *)
(***************************************************************************)
Max(a, b) == IF a >= b THEN a ELSE b
Min(a, b) == IF a <= b THEN a ELSE b

\* floor(a * b / FP) without leaving 32 bits, for 0 <= a, b < 10 * FP
MulFix(a, b) ==
    LET K  == 1000
        ah == a \div K
        al == a % K
        bh == b \div K
        bl == b % K
    IN  (ah * bh) * ((K * K) \div FP)
          + (((ah * bl + al * bh) * K + al * bl) \div FP)

RECURSIVE Frac(_, _, _)
\* the first k decimal digits of r / n, for 0 <= r < n
Frac(r, n, k) ==
    IF k = 0 THEN 0
    ELSE ((r * 10) \div n) * (10 ^ (k - 1)) + Frac((r * 10) % n, n, k - 1)

\* floor(a * FP / n), for n > 0
DivFix(a, n) == (a \div n) * FP + Frac(a % n, n, ROUND_NDIGITS + 1)

RECURSIVE SqrtSearch(_, _, _)
\* the largest s in lo..hi with s * s / FP <= x
SqrtSearch(x, lo, hi) ==
    IF lo = hi THEN lo
    ELSE LET mid == (lo + hi + 1) \div 2
         IN  IF MulFix(mid, mid) <= x
             THEN SqrtSearch(x, mid, hi)
             ELSE SqrtSearch(x, lo, mid - 1)

SqrtFix(x) == SqrtSearch(x, 0, 8 * FP)

RECURSIVE SumSeq(_)
SumSeq(s) == IF s = <<>> THEN 0 ELSE Head(s) + SumSeq(Tail(s))

Dot(a, b) == SumSeq([j \in 1..Len(a) |-> MulFix(a[j], b[j])])

\* sklearn.preprocessing.normalize(norm="l2"): a zero norm is replaced by 1
Normalize(v) ==
    LET n == SqrtFix(Dot(v, v))
    IN  IF n = 0 THEN v ELSE [j \in 1..Len(v) |-> DivFix(v[j], n)]

(***************************************************************************)
(* The artifact behind MODEL_URL: a pickled (tfidf, matrix, meta) triple   *)
(* for the corpus                                                          *)
(*   1 "machine learning basics"     2 "cooking recipes"                   *)
(*   3 "deep learning with python"   4 "machine learning basics"           *)
(***************************************************************************)
FittedVectorizer ==
    [vocabulary_ |->
        [t \in {"basics", "cooking", "deep", "learning",
                "machine", "python", "recipes", "with"} |->
            CASE t = "basics"   -> 1
              [] t = "cooking"  -> 2
              [] t = "deep"     -> 3
              [] t = "learning" -> 4
              [] t = "machine"  -> 5
              [] t = "python"   -> 6
              [] t = "recipes"  -> 7
              [] t = "with"     -> 8],
     idf_ |-> <<151082, 191629, 191629, 122314,
                151082, 191629, 191629, 191629>>]

CorpusMatrix ==
    << <<61366, 0, 0, 49681, 61366, 0, 0, 0>>,
       <<0, 70710, 0, 0, 0, 0, 70710, 0>>,
       <<0, 0, 54173, 34578, 0, 54173, 0, 54173>>,
       <<61366, 0, 0, 49681, 61366, 0, 0, 0>> >>

\* A dataframe cell is <<v>> when it holds v and <<>> when it is NaN/None;
\* an Optional field of the response is written the same way.
NaN == <<>>
None == <<>>

BooksMeta ==
    << [book_title |-> "ML Basics", book_price |-> <<30>>,
        review_score |-> <<4>>, review_summary |-> <<"good">>],
       [book_title |-> "Cooking Recipes", book_price |-> NaN,
        review_score |-> <<5>>, review_summary |-> NaN],
       [book_title |-> "Deep Learning with Python", book_price |-> <<45>>,
        review_score |-> NaN, review_summary |-> <<"dense">>],
       [book_title |-> "ML Basics 2nd ed", book_price |-> <<35>>,
        review_score |-> <<4>>, review_summary |-> <<"good">>] >>

ModelPickle == [pickle |-> TRUE,  obj |-> <<FittedVectorizer, CorpusMatrix, BooksMeta>>]
PairPickle  == [pickle |-> TRUE,  obj |-> <<FittedVectorizer, CorpusMatrix>>]
HtmlPage    == [pickle |-> FALSE, obj |-> <<>>]

\* what requests.get(MODEL_URL) can return
HttpResponses ==
    [status_code : {HTTP_OK, 404}, content : {ModelPickle, PairPickle, HtmlPage}]

Unloaded == <<>>

\* the loader without its status check
load_model_unchecked(resp) ==
    IF ~resp.content.pickle
    THEN [raised |-> TRUE, value |-> <<>>]
    ELSE [raised |-> FALSE, value |-> resp.content.obj]

\* load_model_from_drive: raises on a non-200 status and when the body is no
\* pickle; otherwise returns the unpickled object
load_model_from_drive(resp) ==
    IF resp.status_code # HTTP_OK
    THEN [raised |-> TRUE, value |-> <<>>]
    ELSE IF ~resp.content.pickle
         THEN [raised |-> TRUE, value |-> <<>>]
         ELSE [raised |-> FALSE, value |-> resp.content.obj]

(***************************************************************************)
(* Request payloads                                                        *)
(***************************************************************************)
Domains == { <<"computer", "science">>, <<"Cooking">> }
ModuleTexts == { <<"machine", "learning">>, <<"quantum">> }
ModuleLists == UNION { [1..n -> ModuleTexts] : n \in 0..MaxModules }
CorpusSize == Len(CorpusMatrix)
Limits == ((0 - 1)..(CorpusSize + 1)) \cup {LIMIT_LE, LIMIT_LE + 1}
Payloads == [domain : Domains, modules : ModuleLists, limit : Limits]

\* limit = Field(..., ge=0, le=20): the lower bound made inclusive
RecommendationRequestGe(body) == body.limit >= LIMIT_GT /\ body.limit <= LIMIT_LE

\* RecommendationRequest: limit = Field(..., gt=0, le=20)
RecommendationRequest(body) == body.limit > LIMIT_GT /\ body.limit <= LIMIT_LE

(***************************************************************************)
(* Vectorizer and similarity                                               *)
(***************************************************************************)
RECURSIVE Join(_)
\* " ".join(texts): the words of the texts, in order
Join(texts) == IF texts = <<>> THEN <<>> ELSE Head(texts) \o Join(Tail(texts))

\* str.lower() on the words of the model
Lower(word) ==
    CASE word = "Cooking" -> "cooking"
      [] word = "Python"  -> "python"
      [] OTHER            -> word

\* TfidfVectorizer's analyzer: lower-case, then split into words
Analyze(text) == [i \in 1..Len(text) |-> Lower(text[i])]

\* tfidf.transform([text]): term counts over the fitted vocabulary, times
\* idf, L2-normalized; words outside the vocabulary are dropped
Transform(vectorizer, text) ==
    LET tokens == Analyze(text)
        vocab  == vectorizer.vocabulary_
        tf(j)  == Cardinality({i \in 1..Len(tokens) :
                      tokens[i] \in DOMAIN vocab /\ vocab[tokens[i]] = j})
    IN  Normalize([j \in 1..Len(vectorizer.idf_) |-> tf(j) * vectorizer.idf_[j]])

\* cosine_similarity(x, Y).flatten(): both sides normalized, then dotted
cosine_similarity(x, Y) ==
    LET xn == Normalize(x)
    IN  [i \in 1..Len(Y) |-> Dot(xn, Normalize(Y[i]))]

(***************************************************************************)
(* Top-N                                                                   *)
(***************************************************************************)
Perms(n) == {p \in [1..n -> 1..n] : \A i, j \in 1..n : p[i] = p[j] => i = j}

\* ndarray.argsort() with the default kind: an ascending order of the
\* indices; the default sort is not stable, ties come in any order
ArgSorts(scores) ==
    {p \in Perms(Len(scores)) :
        \A i \in 1..(Len(scores) - 1) : scores[p[i]] <= scores[p[i + 1]]}

\* a[start:] of Python, start possibly negative
SliceFrom(a, start) ==
    LET s == IF start < 0 THEN Max(Len(a) + start, 0) ELSE Min(start, Len(a))
    IN  SubSeq(a, s + 1, Len(a))

\* a[::-1]
Reversed(a) == [i \in 1..Len(a) |-> a[Len(a) + 1 - i]]

\* order[:limit][::-1]: the slice taken from the wrong end
TopIndicesHead(order, limit) == Reversed(SubSeq(order, 1, Min(limit, Len(order))))

\* order[-(limit - 1):][::-1]: the slice off by one
TopIndicesOffByOne(order, limit) == Reversed(SliceFrom(order, 1 - limit))

\* order[-limit:]: the reversal forgotten
TopIndicesAscending(order, limit) == SliceFrom(order, 0 - limit)

\* order[-limit:][::-1]
TopIndices(order, limit) == Reversed(SliceFrom(order, 0 - limit))

\* round(x, 4) of Python: to the nearest, halves to even
Round(x) ==
    LET g == FP \div ScoreScale
        q == x \div g
        r == x % g
    IN  IF 2 * r > g \/ (2 * r = g /\ q % 2 = 1) THEN q + 1 ELSE q

\* the Recommendation built for position i (from 1) of top
Recommendation(i, idx, meta, scores) ==
    LET book == meta[idx]
    IN  [rank           |-> i,
         title          |-> book.book_title,
         price          |-> IF book.book_price # NaN
                            THEN <<book.book_price[1]>> ELSE None,
         review_score   |-> IF book.review_score # NaN
                            THEN <<book.review_score[1]>> ELSE None,
         review_summary |-> IF book.review_summary # NaN
                            THEN <<book.review_summary[1]>> ELSE None,
         score          |-> Round(scores[idx])]

\* the metadata and score looked up by position in the result, not by index
RecommendationsByPosition(top, meta, scores) ==
    [i \in 1..Len(top) |-> Recommendation(i, i, meta, scores)]

Recommendations(top, meta, scores) ==
    [i \in 1..Len(top) |-> Recommendation(i, top[i], meta, scores)]

RecommendationResponse(recs) ==
    [status_code |-> HTTP_OK,
     status |-> "success", count |-> Len(recs), recommendations |-> recs]

(***************************************************************************)
(* State machine                                                           *)
(***************************************************************************)
NoResponse == [status_code |-> 0]
NoRequest  == [domain |-> <<>>, modules |-> <<>>, limit |-> 0]
NoDownload == [status_code |-> 0, content |-> HtmlPage]
EmptyFrame == <<>>

Init ==
    /\ phase = "import"
    /\ downloaded = NoDownload
    /\ tfidf = Unloaded
    /\ tfidf_matrix_books = Unloaded
    /\ df_books_meta = Unloaded
    /\ pc = [w \in Workers |-> "idle"]
    /\ request = [w \in Workers |-> NoRequest]
    /\ frame = [w \in Workers |-> EmptyFrame]
    /\ response = [w \in Workers |-> NoResponse]

\* Module import, line 47: download, unpickle, unpack into the three
\* module-level names.  Any exception ends the import: the routes below are
\* never registered and the server never starts.
ImportModule ==
    /\ phase = "import"
    /\ \E resp \in HttpResponses :
          LET r == load_model_from_drive(resp)
          IN  /\ downloaded' = resp
              /\ IF r.raised \/ Len(r.value) # 3
                 THEN /\ phase' = "aborted"
                      /\ UNCHANGED vsm
                 ELSE /\ phase' = "serving"
                      /\ tfidf' = r.value[1]
                      /\ tfidf_matrix_books' = r.value[2]
                      /\ df_books_meta' = r.value[3]
    /\ UNCHANGED <<pc, request, frame, response>>

\* A POST arrives on a free worker; FastAPI parses the body into a
\* RecommendationRequest and answers 422 itself when validation fails.
ReceiveRequest(w) ==
    /\ phase = "serving"
    /\ pc[w] = "idle"
    /\ \E body \in Payloads :
          /\ request' = [request EXCEPT ![w] = body]
          /\ IF RecommendationRequest(body)
             THEN /\ pc' = [pc EXCEPT ![w] = "handler"]
                  /\ UNCHANGED response
             ELSE /\ pc' = [pc EXCEPT ![w] = "done"]
                  /\ response' = [response EXCEPT ![w] =
                                     [status_code |-> HTTP_UNPROCESSABLE]]
    /\ UNCHANGED <<phase, downloaded, vsm, frame>>

\* `payload.modules is None`: never true of a parsed list
ModulesIsNone(payload) == FALSE

\* `not payload.modules`: an empty list is falsy
ModulesMissing(payload) == payload.modules = <<>>

\* recommend_books, lines 79-89, on the worker's own state: the modules
\* check, the query text, its vector and the similarity of every corpus row
ScoreLocals(w) ==
    /\ pc[w] = "handler"
    /\ LET payload == request[w]
       IN  IF ModulesMissing(payload)
           THEN /\ pc' = [pc EXCEPT ![w] = "done"]
                /\ frame' = [frame EXCEPT ![w] = [payload |-> payload]]
                /\ response' = [response EXCEPT ![w] =
                       [status_code |-> HTTP_BAD_REQUEST,
                        detail |-> "Modules list cannot be empty."]]
           ELSE LET user_text == Join(<<payload.domain>> \o payload.modules)
                    user_vector == Transform(tfidf, user_text)
                    similarity_scores ==
                        cosine_similarity(user_vector, tfidf_matrix_books)
                IN  /\ pc' = [pc EXCEPT ![w] = "rank"]
                    /\ frame' = [frame EXCEPT ![w] =
                           [payload |-> payload,
                            user_text |-> user_text,
                            user_vector |-> user_vector,
                            similarity_scores |-> similarity_scores]]
                    /\ UNCHANGED response

\* the step as it would be with fit_transform in place of transform: the
\* words of the query that the vocabulary lacks are added to it
recommend_books_score_fit(w) ==
    /\ ScoreLocals(w)
    /\ LET words   == {Lower(request[w].domain[i]) : i \in 1..Len(request[w].domain)}
                         \cup UNION {{Lower(m[i]) : i \in 1..Len(m)} :
                                        m \in {request[w].modules[k] :
                                                 k \in 1..Len(request[w].modules)}}
           unknown == words \ DOMAIN tfidf.vocabulary_
       IN  tfidf' = IF unknown = {} THEN tfidf
                    ELSE [vocabulary_ |->
                            [t \in DOMAIN tfidf.vocabulary_ \cup unknown |->
                               IF t \in unknown THEN Len(tfidf.idf_) + 1
                               ELSE tfidf.vocabulary_[t]],
                          idf_ |-> Append(tfidf.idf_, FP)]
    /\ UNCHANGED <<phase, downloaded, tfidf_matrix_books, df_books_meta, request>>

\* recommend_books, lines 79-89: the module-level model is only read
recommend_books_score(w) ==
    /\ ScoreLocals(w)
    /\ UNCHANGED <<phase, downloaded, vsm, request>>

\* recommend_books, lines 92-113: top-N indices, the recommendations built
\* from the metadata rows, the response
recommend_books_rank(w) ==
    /\ pc[w] = "rank"
    /\ \E order \in ArgSorts(frame[w].similarity_scores) :
          LET f == frame[w]
              top_indices == TopIndices(order, f.payload.limit)
              recommendations ==
                  Recommendations(top_indices, df_books_meta, f.similarity_scores)
          IN  /\ frame' = [frame EXCEPT ![w] =
                     [payload |-> f.payload,
                      user_text |-> f.user_text,
                      user_vector |-> f.user_vector,
                      similarity_scores |-> f.similarity_scores,
                      top_indices |-> top_indices,
                      recommendations |-> recommendations]]
              /\ response' = [response EXCEPT ![w] =
                     RecommendationResponse(recommendations)]
    /\ pc' = [pc EXCEPT ![w] = "done"]
    /\ UNCHANGED <<phase, downloaded, vsm, request>>

\* The response is sent; the worker is free again.
SendResponse(w) ==
    /\ pc[w] = "done"
    /\ pc' = [pc EXCEPT ![w] = "idle"]
    /\ request' = [request EXCEPT ![w] = NoRequest]
    /\ frame' = [frame EXCEPT ![w] = EmptyFrame]
    /\ response' = [response EXCEPT ![w] = NoResponse]
    /\ UNCHANGED <<phase, downloaded, vsm>>

\* Requests served one at a time, over every payload of the model.
Next ==
    \/ ImportModule
    \/ ReceiveRequest("w1")
    \/ recommend_books_score("w1")
    \/ recommend_books_rank("w1")
    \/ SendResponse("w1")

Spec == Init /\ [][Next]_vars

\* Two requests in flight at once, their steps interleaved, over the
\* payloads PoolPayloads.
PoolPayloads ==
    {b \in Payloads : /\ b.domain = <<"Cooking">>
                      /\ b.limit \in {0, 2}
                      /\ Len(b.modules) <= 1}

PoolNext ==
    \/ ImportModule
    \/ \E w \in Workers : ReceiveRequest(w) /\ request'[w] \in PoolPayloads
    \/ \E w \in Workers : recommend_books_score(w)
    \/ \E w \in Workers : recommend_books_rank(w)
    \/ \E w \in Workers : SendResponse(w)

PoolSpec == Init /\ [][PoolNext]_vars

(***************************************************************************)
(* Properties                                                              *)
(***************************************************************************)
Range(s) == {s[i] : i \in 1..Len(s)}

\* non-empty modules and 1 <= limit <= 20
ValidQuery(body) == body.modules # <<>> /\ body.limit >= 1 /\ body.limit <= 20

\* the worker holds a 200 response that has not been sent yet
Answered(w) == pc[w] = "done" /\ response[w].status_code = HTTP_OK

\* the names recommend_books binds when it vectorizes, scores and ranks
ComputedNames ==
    {"user_text", "user_vector", "similarity_scores", "top_indices",
     "recommendations"}

NoComputation(w) == DOMAIN frame[w] \cap ComputedNames = {}

\* every word of the domain and of the modules is outside the vocabulary
UnknownOnly(body) ==
    \A i \in 1..Len(Join(<<body.domain>> \o body.modules)) :
        Lower(Join(<<body.domain>> \o body.modules)[i])
            \notin DOMAIN FittedVectorizer.vocabulary_

\* C1: for every valid query the returned items are a top-limit set: no
\* corpus item left out of the result has a full-precision similarity
\* strictly greater than that of a returned item.
C1_TopLimitSet ==
    \A w \in Workers :
        (pc[w] = "done" /\ ValidQuery(request[w])) =>
            /\ response[w].status_code = HTTP_OK
            /\ LET top == frame[w].top_indices
                   sim == frame[w].similarity_scores
               IN  \A out \in (1..Len(sim)) \ Range(top) :
                       \A kept \in Range(top) : sim[out] <= sim[kept]

\* a result that leaves out an item scoring strictly less than a kept one
C1_Witness ==
    \E w \in Workers :
        /\ Answered(w)
        /\ LET top == frame[w].top_indices
               sim == frame[w].similarity_scores
           IN  \E out \in (1..Len(sim)) \ Range(top) :
                   \E kept \in Range(top) : sim[out] < sim[kept]

\* C2: for every valid query the number of recommendations, and the count
\* field, equal min(limit, corpusSize); a limit above the corpus size
\* returns every corpus item once, with no error.
C2_CountIsMin ==
    \A w \in Workers :
        (pc[w] = "done" /\ ValidQuery(request[w])) =>
            /\ response[w].status_code = HTTP_OK
            /\ LET top == frame[w].top_indices
                   n   == Len(tfidf_matrix_books)
               IN  /\ response[w].count = Min(request[w].limit, n)
                   /\ Len(response[w].recommendations) = response[w].count
                   /\ Cardinality(Range(top)) = Len(top)
                   /\ request[w].limit > n => Range(top) = 1..n

\* a limit above the corpus size answered with the whole corpus
C2_Witness ==
    \E w \in Workers :
        /\ Answered(w)
        /\ request[w].limit > Len(tfidf_matrix_books)
        /\ response[w].count = Len(tfidf_matrix_books)

\* C3: items of equal similarity are returned in corpus order: among
\* returned items of equal score the smaller corpus index has the smaller
\* rank, and of a tie group cut by limit the lower-indexed members are kept.
C3_TiesInCorpusOrder ==
    \A w \in Workers :
        Answered(w) =>
            LET top == frame[w].top_indices
                sim == frame[w].similarity_scores
            IN  /\ \A i, j \in 1..Len(top) :
                       (i < j /\ sim[top[i]] = sim[top[j]]) => top[i] < top[j]
                /\ \A out \in (1..Len(sim)) \ Range(top) :
                       \A kept \in Range(top) :
                           sim[out] = sim[kept] => kept < out

\* C4: a query of unknown words only yields scores of 0.0 throughout and the
\* first min(limit, corpusSize) corpus items in ascending corpus order.
C4_UnknownOnlyFirstItems ==
    \A w \in Workers :
        (Answered(w) /\ UnknownOnly(request[w])) =>
            LET top  == frame[w].top_indices
                recs == response[w].recommendations
                n    == Min(request[w].limit, Len(tfidf_matrix_books))
            IN  /\ \A i \in 1..Len(recs) : recs[i].score = 0
                /\ top = [i \in 1..n |-> i]

\* C5: the scores are non-increasing by rank, at full precision and as
\* rounded to four decimals.
C5_NonIncreasing ==
    \A w \in Workers :
        Answered(w) =>
            LET top  == frame[w].top_indices
                sim  == frame[w].similarity_scores
                recs == response[w].recommendations
            IN  \A i \in 1..(Len(top) - 1) :
                    /\ sim[top[i]] >= sim[top[i + 1]]
                    /\ recs[i].score >= recs[i + 1].score

\* a result whose first two scores differ
C5_Witness ==
    \E w \in Workers :
        /\ Answered(w)
        /\ Len(frame[w].top_indices) >= 2
        /\ response[w].recommendations[1].score
              > response[w].recommendations[2].score

\* C6 as stated: a query with an empty modules list is answered 400 and
\* nothing is vectorized, scored or ranked for it.
C6_EmptyModulesIs400 ==
    \A w \in Workers :
        (pc[w] = "done" /\ request[w].modules = <<>>) =>
            /\ response[w].status_code = HTTP_BAD_REQUEST
            /\ NoComputation(w)

\* C6 as amended: a query with an empty modules list is rejected and nothing
\* is vectorized, scored or ranked for it; the answer is 400 when its limit
\* is within 1..20 and the validation error 422 when it is not.
C6_EmptyModulesRejected ==
    \A w \in Workers :
        (pc[w] # "idle" /\ request[w].modules = <<>>) =>
            /\ pc[w] # "rank"
            /\ NoComputation(w)
            /\ pc[w] = "done" =>
                 response[w].status_code =
                    IF request[w].limit >= 1 /\ request[w].limit <= 20
                    THEN HTTP_BAD_REQUEST ELSE HTTP_UNPROCESSABLE

\* the handler has answered 400 to an empty modules list
C6_Witness ==
    \E w \in Workers :
        /\ pc[w] = "done"
        /\ request[w].modules = <<>>
        /\ response[w].status_code = HTTP_BAD_REQUEST
        /\ "payload" \in DOMAIN frame[w]

\* C7: a query whose limit is outside 1..20 is rejected before the handler
\* runs: it is never vectorized, scored or ranked and gets no ranked result.
C7_LimitOutOfRangeRejected ==
    \A w \in Workers :
        (pc[w] # "idle" /\ ~(request[w].limit >= 1 /\ request[w].limit <= 20)) =>
            /\ pc[w] = "done"
            /\ response[w].status_code = HTTP_UNPROCESSABLE
            /\ DOMAIN frame[w] = {}

\* a limit of 0 with modules given, rejected
C7_Witness ==
    \E w \in Workers :
        /\ pc[w] = "done"
        /\ request[w].limit = 0
        /\ request[w].modules # <<>>
        /\ response[w].status_code = HTTP_UNPROCESSABLE

\* the responses recommend_books can give to body against the model obj
\* when no other call is running
Alone(obj, body) ==
    IF ~RecommendationRequest(body)
    THEN {[status_code |-> HTTP_UNPROCESSABLE]}
    ELSE IF ModulesMissing(body)
         THEN {[status_code |-> HTTP_BAD_REQUEST,
                detail |-> "Modules list cannot be empty."]}
         ELSE LET sim == cosine_similarity(
                            Transform(obj[1], Join(<<body.domain>> \o body.modules)),
                            obj[2])
              IN  {RecommendationResponse(
                       Recommendations(TopIndices(o, body.limit), obj[3], sim)) :
                     o \in ArgSorts(sim)}

\* C8: whatever calls have run or are running, valid or rejected, the
\* vectorizer, the matrix and the metadata are those that were loaded, and
\* each call's response is one the call gives when run alone.
C8_ModelUnchanged ==
    phase = "serving" =>
        /\ vsm = downloaded.content.obj
        /\ \A w \in Workers :
               pc[w] = "done" =>
                   response[w] \in Alone(downloaded.content.obj, request[w])

\* a valid call answered while a rejected call is in flight too
C8_Witness ==
    /\ Answered("w1")
    /\ pc["w2"] = "done"
    /\ response["w2"].status_code = HTTP_BAD_REQUEST

\* C9: a request is only ever in progress after a load that succeeded: a
\* download that is not 200, or a body that does not unpickle into the
\* three parts, leaves the program aborted with no request accepted.
C9_NoQueryBeforeLoad ==
    LET good == /\ downloaded.status_code = HTTP_OK
                /\ downloaded.content.pickle
                /\ Len(downloaded.content.obj) = 3
    IN  /\ (\E w \in Workers : pc[w] # "idle") =>
              (phase = "serving" /\ good /\ vsm = downloaded.content.obj)
        /\ (phase # "import" /\ ~good) =>
              (phase = "aborted" /\ \A w \in Workers : pc[w] = "idle")

\* startup aborted on a 200 download whose body unpickles into two parts
C9_Witness ==
    /\ phase = "aborted"
    /\ downloaded.status_code = HTTP_OK
    /\ downloaded.content.pickle

====
